---- MODULE Spec2Model ----
(***************************************************************************)
(* Model of the loan-decision interpretability dashboard                   *)
(* (src/dash_functions.py, src/app.py).                                    *)
(*                                                                         *)
(* Floating-point numbers are modelled as exact rationals [n, d]; the      *)
(* record with d = 0 is the float NaN (the result of 0.0 / 0).             *)
(***************************************************************************)
EXTENDS Integers, Sequences, FiniteSets, TLC

VARIABLES
    models_file,         \* content of data/LGBM_classifiers.joblib
    explainers_file,     \* content of data/shapExplainers/ShapExplainer_<i>.joblib
    thres,               \* the denial threshold handed to predict_decision
    customer_selection,  \* value of the 'customer_selection' dropdown
    customer_risk,       \* children of 'customer_risk'
    customer_decision,   \* children of 'customer_decision'
    ret_predict,         \* the last predict_decision call: argument and outcome
    shapleys,            \* data of the 'shapleys' store
    ret_shap,            \* the last shap_explain call: argument and outcome
    top_slider,          \* value of 'top_slider'
    waterfall,           \* figure of 'waterfall'
    top_tables,          \* children of 'top_tables'
    shap_values_file,    \* content of data/shap_values.csv.gzip
    crit_selection,      \* value of the 'crit_selection' dropdown
    panel,               \* figure of 'panel'
    crit_outputs,        \* the five outputs of update_description
    tracing,             \* tracemalloc is tracing (one flag for the process)
    requests,            \* the callbacks the server is running, one per thread
    shared_tables,       \* df_cust and df_crit as the process holds them
    last_callback,       \* the callback that ran last and how it ended
    events               \* the number of events of the session so far

vars == <<models_file, explainers_file, thres, customer_selection,
          customer_risk, customer_decision, ret_predict, shapleys, ret_shap,
          top_slider, waterfall, top_tables, shap_values_file,
          crit_selection, panel, crit_outputs, tracing, requests,
          shared_tables, last_callback, events>>

\* Python's None, as a dropdown value (no customer selected): it is no key
None == 0

\* Python's None, as the value of the criteria dropdown (names are sequences)
NoCriteria == <<>>

\* a component output that was never written
NoOutput == [kind |-> "none"]

\* no call was made yet
NoCall == [outcome |-> "none"]

\* dcc.Slider(id='top_slider', min=5, max=50, value=15, step=5)
top_slider_value == 15

-----------------------------------------------------------------------------
(* Floats as exact rationals.                                              *)

Abs(k) == IF k < 0 THEN -k ELSE k

RECURSIVE GCD(_, _)
GCD(a, b) == IF b = 0 THEN a ELSE GCD(b, a % b)

\* the rational n / d in lowest terms (d >= 0); n / 0 is kept as NaN
Rat(n, d) ==
    IF d = 0 THEN [n |-> 0, d |-> 0]
    ELSE LET g == GCD(Abs(n), d)
         IN  [n |-> n \div g, d |-> d \div g]

NaN == [n |-> 0, d |-> 0]

Zero == [n |-> 0, d |-> 1]

One == [n |-> 1, d |-> 1]

IsNaN(x) == x.d = 0

\* x + y (NaN when either is NaN)
RatAdd(x, y) ==
    IF IsNaN(x) \/ IsNaN(y) THEN NaN
    ELSE LET l == (x.d \div GCD(x.d, y.d)) * y.d
         IN  Rat(x.n * (l \div x.d) + y.n * (l \div y.d), l)

\* -x
RatNeg(x) == [n |-> -x.n, d |-> x.d]

\* x - y
RatSub(x, y) == RatAdd(x, RatNeg(y))

\* x * k for an integer k
RatMulInt(x, k) == Rat(x.n * k, x.d)

\* x / k for an integer k >= 0; 0.0 / 0 is NaN
RatDivInt(x, k) == Rat(x.n, x.d * k)

\* abs(x)
RatAbs(x) == [n |-> Abs(x.n), d |-> x.d]

\* x == y on floats: NaN equals nothing
RatEq(x, y) == ~IsNaN(x) /\ ~IsNaN(y) /\ x.n * y.d = y.n * x.d

\* x < y on floats: every comparison with NaN is False
RatLess(x, y) == ~IsNaN(x) /\ ~IsNaN(y) /\ x.n * y.d < y.n * x.d

RatLeq(x, y) == ~IsNaN(x) /\ ~IsNaN(y) /\ x.n * y.d <= y.n * x.d

\* round(n / d) to the nearest integer, halves to the even neighbour (d > 0)
RoundHalfEven(n, d) ==
    LET q == n \div d
        r == n - q * d
    IN  IF 2 * r < d THEN q
        ELSE IF 2 * r > d THEN q + 1
        ELSE IF q % 2 = 0 THEN q ELSE q + 1

-----------------------------------------------------------------------------
(* The customer table df_cust.                                             *)

NumFeats == 4

NumCust == 2

Feats == 1..NumFeats

\* df_cust.index
CustomerIds == 1..NumCust

\* an identifier that is no key of df_cust
UnknownId == NumCust + 1

\* df_cust.loc[c].values : the raw feature values of customer c; the second
\* column holds a code, 0 or 1
RawValue(c, i) ==
    IF i = 2 THEN Rat(c % 2, 1) ELSE Rat(1201 * c + 1010 * i, 10000)

df_cust == [c \in CustomerIds |-> [i \in Feats |-> RawValue(c, i)]]

Rows == {df_cust[c] : c \in CustomerIds}

\* df_cust.loc[customer_id]: a KeyError when customer_id is no key
HasKey(df, customer_id) == customer_id \in DOMAIN df

\* df_table['Criteria'].apply(lambda x: str(x)[:30])
NameWidth == 30

\* df_cust.columns: the feature names, as sequences of character codes. The
\* odd features have names of NameWidth + 1 characters that differ in the
\* last one only, the even features have short names.
FeatureName(i) ==
    IF i % 2 = 1
    THEN [j \in 1..(NameWidth + 1) |-> IF j <= NameWidth THEN 1 ELSE i]
    ELSE <<2, i>>

columns == [i \in Feats |-> FeatureName(i)]

\* a row of the criteria descriptions that is no column of the tables
UnknownCrit == <<3>>

\* df_crit['Row']: the criteria the descriptions file describes, which are
\* the options of the 'crit_selection' dropdown
df_crit == {FeatureName(i) : i \in Feats} \cup {UnknownCrit}

\* the tables loaded when the process starts
LoadedTables == [df_cust |-> df_cust, df_crit |-> df_crit]

-----------------------------------------------------------------------------
(* The decision engine.                                                    *)

MaxModels == 2

\* probabilities of denial a classifier may return
ProbSet == {Rat(0, 1), Rat(3, 10), Rat(1, 2), Rat(1, 1)}

ThresSet == {Rat(3, 10), Rat(1, 2)}

\* a classifier: the denial probability it gives each row of the table;
\* these split on the first feature (or ignore the row, when p = q)
Classifiers ==
    {[r \in Rows |-> IF RatLess(r[1], Rat(3, 10)) THEN p ELSE q] :
        p \in ProbSet, q \in ProbSet}

\* clf.predict_proba(cust_array)[0]: <<P(class 0), P(class 1)>>
predict_proba(clf, cust_array) ==
    <<RatSub(One, clf[cust_array]), clf[cust_array]>>

\* joblib.load of the classifier file: whatever list the file holds
load_models == models_file

\* decision_vector after adding the first j classifiers' predict_proba
RECURSIVE SumProba(_, _, _)
SumProba(models, cust_array, j) ==
    IF j = 0 THEN <<Zero, Zero>>
    ELSE LET acc == SumProba(models, cust_array, j - 1)
             p   == predict_proba(models[j], cust_array)
         IN  <<RatAdd(acc[1], p[1]), RatAdd(acc[2], p[2])>>

ProbGrant(decision_vector) == decision_vector[1]
\* prob_deny = decision_vector[0][1]: the averaged probability of class 1
ProbDeny(decision_vector) == decision_vector[2]

DenyWrong(prob_deny, t) == RatLeq(prob_deny, t)
\* decision = prob_deny < thres
Deny(prob_deny, t) == RatLess(prob_deny, t)

LookupDefault(df, customer_id) ==
    IF HasKey(df, customer_id) THEN [outcome |-> "ok", row |-> df[customer_id]]
    ELSE [outcome |-> "ok", row |-> df[1]]
\* df.loc[customer_id]
Lookup(df, customer_id) ==
    IF HasKey(df, customer_id) THEN [outcome |-> "ok", row |-> df[customer_id]]
    ELSE [outcome |-> "KeyError"]

predict_decision(models, df, customer_id, t) ==
    LET n_models == Len(models)
        cust     == Lookup(df, customer_id)
    IN  IF cust.outcome # "ok"
        THEN [customer_id |-> customer_id, outcome |-> cust.outcome]
        ELSE LET summed          == SumProba(models, cust.row, n_models)
                 decision_vector == <<RatDivInt(summed[1], n_models),
                                      RatDivInt(summed[2], n_models)>>
                 prob_deny       == ProbDeny(decision_vector)
             IN  [customer_id |-> customer_id,
                  outcome     |-> "ok",
                  risk        |-> prob_deny,
                  decision    |-> Deny(prob_deny, t)]

\* '{:.1%}'.format(risk): the percentage in tenths of a percent
FormatPercent1(risk) ==
    IF IsNaN(risk) THEN [kind |-> "nan%"]
    ELSE [kind |-> "percent", tenths |-> RoundHalfEven(risk.n * 1000, risk.d)]

\* tracemalloc.start() ... tracemalloc.stop(): a callback that raises in
\* between never reaches the stop and leaves the tracing on
Traced(outcome) == tracing' = (outcome # "ok")

\* the callback that ran and how it ended: "ok" or the exception raised
Ran(name, outcome) == last_callback' = [name |-> name, outcome |-> outcome]

\* the callback fired when the dropdown value changes
update_customer(customer_id) ==
    LET models == load_models
        ret    == predict_decision(models, df_cust, customer_id, thres)
    IN  /\ customer_selection' = customer_id
        /\ ret_predict' = ret
        /\ IF ret.outcome = "ok"
           THEN /\ customer_risk' = FormatPercent1(ret.risk)
                /\ customer_decision' =
                       [kind |-> IF ret.decision THEN "granted" ELSE "denied"]
           ELSE UNCHANGED <<customer_risk, customer_decision>>
        /\ Traced(ret.outcome)
        /\ Ran("update_customer", ret.outcome)
        /\ UNCHANGED <<models_file, explainers_file, thres, shapleys, ret_shap,
                       top_slider, waterfall, top_tables, shap_values_file,
                       crit_selection, panel, crit_outputs, requests, shared_tables>>

RECURSIVE SeqsUpTo(_, _)
SeqsUpTo(S, n) ==
    IF n = 0 THEN {<<>>}
    ELSE LET shorter == SeqsUpTo(S, n - 1)
         IN  shorter \cup {Append(s, x) : s \in {t \in shorter : Len(t) = n - 1},
                                         x \in S}

\* the page as first served: nothing selected, every output empty
InitPage ==
    /\ customer_selection = None
    /\ customer_risk = NoOutput
    /\ customer_decision = NoOutput
    /\ ret_predict = NoCall
    /\ shapleys = NoOutput
    /\ ret_shap = NoCall
    /\ top_slider = top_slider_value
    /\ waterfall = NoOutput
    /\ top_tables = NoOutput
    /\ crit_selection = NoCriteria
    /\ panel = NoOutput
    /\ crit_outputs = NoOutput
    /\ tracing = FALSE
    /\ requests = <<>>
    /\ shared_tables = LoadedTables
    /\ last_callback = NoCall
    /\ events = 0

InitDecision ==
    /\ models_file \in SeqsUpTo(Classifiers, MaxModels)
    /\ explainers_file = <<>>
    /\ thres \in ThresSet
    /\ shap_values_file = <<>>
    /\ InitPage

\* the values a callback request may carry for the dropdown: a key of the
\* table, None (selection cleared) or an identifier the table does not hold
CustomerInputs == CustomerIds \cup {UnknownId, None}

NextDecision ==
    /\ \E customer_id \in CustomerInputs : update_customer(customer_id)
    /\ UNCHANGED events

SpecDecision == InitDecision /\ [][NextDecision]_vars

-----------------------------------------------------------------------------
(* The attribution aggregator.                                             *)

\* def shap_explain(customer_id, df_cust, n_expl=5)
n_expl == 5

\* the classifiers of the explained ensemble: one ignores the row, the
\* other splits on the first feature
ExplClassifiers ==
    {[r \in Rows |-> Rat(1, 5)],
     [r \in Rows |-> IF RatLess(r[1], Rat(3, 10)) THEN Rat(1, 2) ELSE Rat(1, 10)]}

\* how an explainer spreads f(x) - E[f] over the features: all of it on the
\* first feature, or twice it on the first and its opposite on the second
Shapes == {"first", "split"}

Weight(shape, i) ==
    IF shape = "first" THEN (IF i = 1 THEN 1 ELSE 0)
    ELSE (IF i = 1 THEN 2 ELSE IF i = 2 THEN -1 ELSE 0)

\* the expected value E[f] of the explained class-1 output
BaseSet == {Rat(1, 4)}

\* an explainer of classifier clf, locally accurate by construction: for each
\* class c, expected_value[c] + sum(shap_values(x)[c]) = predict_proba(x)[c].
\* The explainer files are not part of the sources; explaining the class
\* probabilities is the reading under which an explanation can add up to a
\* risk at all.
Explainers == [clf : ExplClassifiers, base : BaseSet, shape : Shapes]

\* explainer.expected_value: one baseline per class
expected_value(explainer) == <<RatSub(One, explainer.base), explainer.base>>

\* explainer.shap_values(customer_values): per class, one row (the only row
\* of customer_values) of per-feature contributions
shap_values(explainer, row) ==
    LET r == RatSub(explainer.clf[row], explainer.base)
        class1 == [i \in Feats |-> RatMulInt(r, Weight(explainer.shape, i))]
        class0 == [i \in Feats |-> RatNeg(class1[i])]
    IN  <<class0, class1>>

\* joblib.load of the file of explainer number i (numbered from 0)
load_explainer(i) == explainers_file[i + 1]

\* the [0] of explainer.shap_values(...)[0] and explainer.expected_value[0]
Explained(per_class) == per_class[1]

\* <<shap_vals, base_value>> after the first j explainers
RECURSIVE SumExplain(_, _, _)
SumExplain(row, n, j) ==
    IF j = 0 THEN [shap_vals |-> [i \in Feats |-> Zero], base_value |-> Zero]
    ELSE LET acc       == SumExplain(row, n, j - 1)
             explainer == load_explainer(j - 1)
             shapley   == Explained(shap_values(explainer, row))
         IN  [shap_vals  |-> [i \in Feats |->
                                RatAdd(acc.shap_vals[i], RatDivInt(shapley[i], n))],
              base_value |-> RatAdd(acc.base_value,
                                RatDivInt(Explained(expected_value(explainer)), n))]

shap_explain(customer_id, df, n) ==
    LET cust == Lookup(df, customer_id)
    IN  IF cust.outcome # "ok"
        THEN [customer_id |-> customer_id, outcome |-> cust.outcome]
        ELSE LET agg == SumExplain(cust.row, n, n)
             IN  [customer_id |-> customer_id,
                  outcome     |-> "ok",
                  shaps       |-> <<agg.shap_vals>>,
                  base        |-> agg.base_value]

\* the callback of the 'Load explanations' button
update_explaination ==
    LET ret == shap_explain(customer_selection, df_cust, n_expl)
    IN  /\ ret_shap' = ret
        /\ IF ret.outcome = "ok"
           THEN shapleys' = [kind |-> "dict", shaps |-> ret.shaps, base |-> ret.base]
           ELSE UNCHANGED shapleys
        /\ Ran("update_explaination", ret.outcome)
        /\ UNCHANGED <<models_file, explainers_file, thres, customer_selection,
                       customer_risk, customer_decision, ret_predict,
                       top_slider, waterfall, top_tables, shap_values_file,
                       crit_selection, panel, crit_outputs, tracing, requests, shared_tables>>

\* thres = 0.3
app_thres == Rat(3, 10)

\* the shapes of the explainers of one set of explainer files
ShapeLists ==
    {[i \in 1..n_expl |-> "first"],
     [i \in 1..n_expl |-> "split"],
     [i \in 1..n_expl |-> IF i % 2 = 1 THEN "first" ELSE "split"]}

\* one explainer per classifier, in the classifiers' order
InitExplain ==
    /\ explainers_file \in
           {f \in [1..n_expl -> Explainers] :
                [i \in 1..n_expl |-> f[i].shape] \in ShapeLists}
    /\ models_file = [i \in 1..n_expl |-> explainers_file[i].clf]
    /\ thres = app_thres
    /\ shap_values_file = <<>>
    /\ InitPage

NextExplain ==
    /\ \/ \E customer_id \in CustomerInputs : update_customer(customer_id)
       \/ update_explaination
    /\ UNCHANGED events

SpecExplain == InitExplain /\ [][NextExplain]_vars

-----------------------------------------------------------------------------
(* The waterfall builder.                                                  *)

\* the largest number of criteria asked for
MaxNTop == 5

\* aggregated contributions a feature may have
ShapVals == {Rat(-26, 10000), Rat(-4, 10000), Rat(4, 10000), Rat(26, 10000)}

SignedColumn(values) == values
\* df['abs'] = df['values'].apply('abs')
AbsColumn(values) == [i \in DOMAIN values |-> RatAbs(values[i])]

\* the orders of the rows S that are ascending by key, ties in any order
RECURSIVE AscendingOrders(_, _)
AscendingOrders(key, S) ==
    IF S = {} THEN {<<>>}
    ELSE LET least == {i \in S : \A j \in S : RatLeq(key[i], key[j])}
         IN  UNION {{<<i>> \o rest : rest \in AscendingOrders(key, S \ {i})} :
                       i \in least}

Reverse(seq) == [j \in 1..Len(seq) |-> seq[Len(seq) + 1 - j]]

sort_values_descending(key) ==
    {Reverse(order) : order \in AscendingOrders(key, DOMAIN key)}
\* df.sort_values(by=key): the row orders the call may leave. The default
\* kind='quicksort' is not a stable sort, so rows with equal keys come out
\* in any order.
sort_values(key) == AscendingOrders(key, DOMAIN key)

Min(a, b) == IF a < b THEN a ELSE b

Max(a, b) == IF a > b THEN a ELSE b

\* df.tail(n): the last n rows (all of them when n >= len, none when n = 0)
tail(rows, n) == SubSeq(rows, Len(rows) - Min(n, Len(rows)) + 1, Len(rows))

iloc_first(rows, n) == SubSeq(rows, 1, Min(n, Len(rows)))
\* df.iloc[:-n]: all rows but the last n; -0 is 0, so n = 0 gives no row
iloc_but_last(rows, n) ==
    IF n = 0 THEN <<>> ELSE SubSeq(rows, 1, Max(Len(rows) - n, 0))

\* sum of a column over the rows of a frame (0 for no row)
RECURSIVE SumRows(_, _)
SumRows(values, rows) ==
    IF rows = <<>> THEN Zero
    ELSE RatAdd(values[Head(rows)], SumRows(values, Tail(rows)))

RECURSIVE SumSeq(_)
SumSeq(xs) == IF xs = <<>> THEN Zero ELSE RatAdd(Head(xs), SumSeq(Tail(xs)))

append_top_only(df_others, df_top) == df_top
\* df_others.append(df_top)
append(df_others, df_top) == df_others \o df_top

\* the figure plot_waterfall returns when sort_values leaves the rows in
\* this order; a bar is a row of df_waterfall: its label (y), the feature it
\* stands for (0 for the 'others' row) and its value (x)
WaterfallFigure(df_columns, n_top, base_value, shaps, order) ==
    LET values    == shaps[1]
        top       == tail(order, n_top)
        df_top    == [j \in DOMAIN top |->
                         [label |-> [text |-> "criteria",
                                     name |-> df_columns[top[j]],
                                     n    |-> 0],
                          feat  |-> top[j],
                          value |-> values[top[j]]]]
        folded    == iloc_but_last(order, n_top)
        df_others == <<[label |-> [text |-> "others", name |-> <<>>,
                                   n |-> Len(folded)],
                        feat  |-> 0,
                        value |-> SumRows(values, folded)]>>
        df_waterfall == append(df_others, df_top)
        final_value  == RatAdd(SumSeq([j \in DOMAIN df_waterfall |->
                                          df_waterfall[j].value]),
                               base_value)
    IN  [kind        |-> "figure",
         base        |-> base_value,
         bars        |-> df_waterfall,
         final_value |-> final_value,
         height      |-> 200 + 25 * n_top]

\* the figures plot_waterfall may return
plot_waterfall(df_columns, customer_id, n_top, t, base_value, shaps) ==
    {WaterfallFigure(df_columns, n_top, base_value, shaps, order) :
        order \in sort_values(AbsColumn(shaps[1]))}

\* shapleys['shaps'] on the data of a store never written, which is None
Subscript(store) ==
    IF store.kind = "none" THEN [outcome |-> "TypeError"] ELSE [outcome |-> "ok"]

\* how update_water ends
update_water_outcome == Subscript(shapleys).outcome

\* the callback of the 'Update waterfall' button; with an empty store
\* shapleys['shaps'] raises and the figure is left as it was
update_water ==
    /\ IF shapleys.kind = "none"
       THEN UNCHANGED waterfall
       ELSE waterfall' \in plot_waterfall(columns, customer_selection, top_slider,
                                         thres, shapleys.base, shapleys.shaps)
    /\ Traced(update_water_outcome)
    /\ Ran("update_water", update_water_outcome)
    /\ UNCHANGED <<models_file, explainers_file, thres, customer_selection,
                   customer_risk, customer_decision, ret_predict, shapleys,
                   ret_shap, top_slider, top_tables, shap_values_file,
                   crit_selection, panel, crit_outputs, requests, shared_tables>>

\* aggregated baselines the store may hold
StoreBases == {Rat(1, 4), Rat(-1, 2)}

\* a store holding any aggregated attribution, and any positive number of
\* criteria asked for (the slider of the page offers 5 to 50 by steps of 5)
InitWaterfall ==
    /\ models_file = <<>>
    /\ explainers_file = <<>>
    /\ thres = app_thres
    /\ customer_selection = 1
    /\ customer_risk = NoOutput
    /\ customer_decision = NoOutput
    /\ ret_predict = NoCall
    /\ shapleys \in {[kind |-> "dict", shaps |-> <<v>>, base |-> b] :
                        v \in [Feats -> ShapVals], b \in StoreBases}
    /\ ret_shap = NoCall
    /\ top_slider \in 1..MaxNTop
    /\ waterfall = NoOutput
    /\ top_tables = NoOutput
    /\ shap_values_file = <<>>
    /\ crit_selection = NoCriteria
    /\ panel = NoOutput
    /\ crit_outputs = NoOutput
    /\ tracing = FALSE
    /\ requests = <<>>
    /\ shared_tables = LoadedTables
    /\ last_callback = NoCall
    /\ events = 0

\* one call for each drawn input: a second click on the same inputs can
\* only draw one of the figures a first click can draw
NextWaterfall == waterfall = NoOutput /\ update_water /\ UNCHANGED events

SpecWaterfall == InitWaterfall /\ [][NextWaterfall]_vars

-----------------------------------------------------------------------------
(* The top-contributor tables.                                             *)

\* str(x)[:30]
Truncate(name) == SubSeq(name, 1, Min(Len(name), NameWidth))

\* round(x, 3) if pd.api.types.is_number(x) else x
Decimals == 3

RECURSIVE Pow10(_)
Pow10(k) == IF k = 0 THEN 1 ELSE 10 * Pow10(k - 1)

\* round(x, Decimals): the nearest multiple of 10^-Decimals
Round(x) == Rat(RoundHalfEven(x.n * Pow10(Decimals), x.d), Pow10(Decimals))

head_all(rows, n) == rows
\* df.head(n): the first n rows (all of them when n >= len)
head(rows, n) == SubSeq(rows, 1, Min(n, Len(rows)))

\* content of data/mean_abs_shaps.joblib: the mean absolute contribution of
\* each feature over the reference population, the later features weighing more
mean_abs_shaps == [i \in Feats |-> Rat(13 * i, 10000)]

\* the row of a table for feature i: df_table's index (not displayed) and
\* the displayed cells
TableRow(df, customer_id, shaps, i) ==
    [index    |-> i,
     Criteria |-> Truncate(columns[i]),
     Values   |-> Round(df[customer_id][i]),
     Impact   |-> Round(shaps[1][i])]

\* the children generate_top_tables returns under these two row orders
TopTables(n_top, df, customer_id, shaps, order_c, order_o) ==
    LET top_c == head(order_c, n_top)
        top_o == head(order_o, n_top)
    IN  [kind    |-> "tables",
         child_c |-> [j \in DOMAIN top_c |->
                         TableRow(df, customer_id, shaps, top_c[j])],
         child_o |-> [j \in DOMAIN top_o |->
                         [index       |-> top_o[j],
                          Criteria    |-> Truncate(columns[top_o[j]]),
                          Mean_impact |-> Round(mean_abs_shaps[top_o[j]]),
                          Values      |-> Round(df[customer_id][top_o[j]]),
                          Impact      |-> Round(shaps[1][top_o[j]])]]]

\* the children generate_top_tables may return; df_cust.loc[[customer_id]]
\* raises for an identifier that is no key
generate_top_tables(n_top, df, customer_id, shaps) ==
    IF Lookup(df, customer_id).outcome # "ok" THEN {}
    ELSE {TopTables(n_top, df, customer_id, shaps, order_c, order_o) :
             order_c \in sort_values_descending(AbsColumn(shaps[1])),
             order_o \in sort_values_descending(mean_abs_shaps)}

\* how update_tables ends
update_tables_outcome ==
    IF Subscript(shapleys).outcome # "ok" THEN Subscript(shapleys).outcome
    ELSE Lookup(df_cust, customer_selection).outcome

\* the callback of the 'Update top tables' button; when the store is empty
\* or the customer is no key the call raises and the tables are left as
\* they were
update_tables ==
    /\ IF \/ shapleys.kind = "none"
          \/ Lookup(df_cust, customer_selection).outcome # "ok"
       THEN UNCHANGED top_tables
       ELSE top_tables' \in generate_top_tables(top_slider, df_cust,
                                customer_selection, shapleys.shaps)
    /\ Traced(update_tables_outcome)
    /\ Ran("update_tables", update_tables_outcome)
    /\ UNCHANGED <<models_file, explainers_file, thres, customer_selection,
                   customer_risk, customer_decision, ret_predict, shapleys,
                   ret_shap, top_slider, waterfall, shap_values_file,
                   crit_selection, panel, crit_outputs, requests, shared_tables>>

\* any customer of the table, a store holding any aggregated attribution,
\* any number of criteria asked
InitTables ==
    /\ models_file = <<>>
    /\ explainers_file = <<>>
    /\ thres = app_thres
    /\ customer_selection \in CustomerIds
    /\ customer_risk = NoOutput
    /\ customer_decision = NoOutput
    /\ ret_predict = NoCall
    /\ shapleys \in {[kind |-> "dict", shaps |-> <<v>>, base |-> b] :
                        v \in [Feats -> ShapVals], b \in StoreBases}
    /\ ret_shap = NoCall
    /\ top_slider \in 1..MaxNTop
    /\ waterfall = NoOutput
    /\ top_tables = NoOutput
    /\ shap_values_file = <<>>
    /\ crit_selection = NoCriteria
    /\ panel = NoOutput
    /\ crit_outputs = NoOutput
    /\ tracing = FALSE
    /\ requests = <<>>
    /\ shared_tables = LoadedTables
    /\ last_callback = NoCall
    /\ events = 0

\* one call for each drawn input: a second click on the same inputs can
\* only build one of the tables a first click can build
NextTables == top_tables = NoOutput /\ update_tables /\ UNCHANGED events

SpecTables == InitTables /\ [][NextTables]_vars

-----------------------------------------------------------------------------
(* The partial-dependence scatter and the criteria description.            *)

\* the number of customers of the reference sample
NumRef == 3

RefIds == 1..NumRef

\* the estimated risks a row of the reference sample may hold
EstRiskSet == {Rat(-1, 10), Zero, Rat(1, 5), Rat(3, 10), Rat(2, 5), One}

\* the contribution of feature i for the reference customer id
RefShapValue(id, i) == Rat(11 * id - 17 * i, 1000)

\* pd.read_csv of the reference sample: whatever table the file holds
load_shap_values == shap_values_file

\* df_crit[df_crit['Row']==crit]['Description'].values[0]
Description(crit) ==
    IF crit \in df_crit
    THEN [outcome |-> "ok", text |-> [description_of |-> crit]]
    ELSE [outcome |-> "IndexError"]

\* df[[crit]]: the column named crit, a KeyError when there is none
Column(crit) ==
    IF \E i \in Feats : columns[i] = crit
    THEN [outcome |-> "ok", i |-> CHOOSE i \in Feats : columns[i] = crit]
    ELSE [outcome |-> "KeyError"]

clip_upper(x, lower, upper) == IF RatLess(upper, x) THEN upper ELSE x
\* Series.clip(lower, upper): values under lower become lower, values over
\* upper become upper
clip(x, lower, upper) ==
    IF RatLess(x, lower) THEN lower
    ELSE IF RatLess(upper, x) THEN upper
    ELSE x

\* corr_tab: the criteria holding codes, and the label of each code
corr_tab ==
    [crit \in {FeatureName(2)} |->
        [code \in {Zero, One} |-> [label |-> IF code = Zero THEN "F" ELSE "M"]]]

\* s_vals['crit_value'].replace(corr_tab[crit]): a value that is no code
\* passes through
replace(crit, value) ==
    IF crit \in DOMAIN corr_tab /\ value \in DOMAIN corr_tab[crit]
    THEN corr_tab[crit][value]
    ELSE value

\* a cell left empty by the join
Missing == [missing |-> TRUE]

\* df_summary = s_shap.join(s_vals): one row per reference customer, with the
\* criteria value of those the customer table holds
df_summary(df, df_shap, crit, i, t) ==
    [id \in DOMAIN df_shap |->
        [crit_value     |-> IF id \in DOMAIN df THEN replace(crit, df[id][i])
                            ELSE Missing,
         shap_value     |-> df_shap[id].shap[i],
         estimated_risk |-> clip(df_shap[id].est_risk, Zero, t)]]

\* the labels of corr_tab in the order of Python's strings
LabelOrder == <<"F", "M">>

LabelRank(label) == CHOOSE k \in DOMAIN LabelOrder : LabelOrder[k] = label

\* Series.min(): the least of the values of a column, empty cells skipped;
\* NaN when it has none
SeriesMin(S) ==
    LET numbers == {x \in S : DOMAIN x = {"n", "d"}}
        labels  == {x \in S : DOMAIN x = {"label"}}
    IN  IF labels # {}
        THEN CHOOSE m \in labels :
                 \A x \in labels : LabelRank(m.label) <= LabelRank(x.label)
        ELSE IF numbers = {} THEN NaN
        ELSE CHOOSE m \in numbers : \A x \in numbers : RatLeq(m, x)

plot_shap_scatter(df, df_shap, crit, cust, shaps, t) ==
    LET col == Column(crit)
    IN  IF col.outcome # "ok" THEN [outcome |-> col.outcome]
        ELSE
        LET summary == df_summary(df, df_shap, crit, col.i, t)
            fig     == [kind |-> "figure", points |-> summary, shapes |-> <<>>]
        IN  IF cust = None
            THEN [outcome |-> "ok", fig |-> fig]
            ELSE IF ~HasKey(df, cust) THEN [outcome |-> "KeyError"]
            ELSE
            LET cust_value == df[cust][col.i]
                cust_shap  == shaps[1][col.i]
                x_min == SeriesMin({summary[id].crit_value : id \in DOMAIN summary})
                y_min == SeriesMin({summary[id].shap_value : id \in DOMAIN summary})
            IN  [outcome |-> "ok",
                 fig |-> [kind   |-> "figure",
                          points |-> summary,
                          shapes |-> <<[x0 |-> cust_value, x1 |-> cust_value,
                                        y0 |-> y_min, y1 |-> cust_shap],
                                       [x0 |-> x_min, x1 |-> cust_value,
                                        y0 |-> cust_shap, y1 |-> cust_shap]>>]]

\* '{:.4f}'.format(x): the number in ten-thousandths
FormatFixed4(x) ==
    IF IsNaN(x) THEN [kind |-> "nan"]
    ELSE [kind |-> "fixed", tenthousandths |-> RoundHalfEven(x.n * 10000, x.d)]

\* what update_description returns, or the exception it raises; a call with
\* no criteria falls off the end of the function and returns None where the
\* framework expects the five outputs
update_description_ret(df, store, crit, cust) ==
    IF crit = NoCriteria THEN [outcome |-> "InvalidCallbackReturnValue"]
    ELSE IF Description(crit).outcome # "ok"
    THEN [outcome |-> Description(crit).outcome]
    ELSE IF Subscript(store).outcome # "ok"
    THEN [outcome |-> Subscript(store).outcome]
    ELSE
    LET plot == plot_shap_scatter(df, load_shap_values, crit, cust,
                                  store.shaps, thres)
    IN  IF plot.outcome # "ok" THEN [outcome |-> plot.outcome]
        ELSE [outcome          |-> "ok",
              crit_descr       |-> Description(crit).text,
              scatter_title    |-> crit,
              scatter_plot     |-> plot.fig,
              cust_crit_value  |-> IF cust = None THEN [kind |-> "NA"]
                                   ELSE df[cust][Column(crit).i],
              cust_crit_impact |-> IF cust = None THEN [kind |-> "NA"]
                                   ELSE FormatFixed4(
                                            store.shaps[1][Column(crit).i])]

\* the callback of the 'Update criteria description' button
update_description ==
    LET ret == update_description_ret(df_cust, shapleys, crit_selection,
                                      customer_selection)
    IN  /\ IF ret.outcome = "ok"
           THEN crit_outputs' = [kind             |-> "outputs",
                                 crit_descr       |-> ret.crit_descr,
                                 scatter_title    |-> ret.scatter_title,
                                 scatter_plot     |-> ret.scatter_plot,
                                 cust_crit_value  |-> ret.cust_crit_value,
                                 cust_crit_impact |-> ret.cust_crit_impact]
           ELSE UNCHANGED crit_outputs
        /\ Traced(ret.outcome)
        /\ Ran("update_description", ret.outcome)
        /\ UNCHANGED <<models_file, explainers_file, thres, customer_selection,
                       customer_risk, customer_decision, ret_predict, shapleys,
                       ret_shap, top_slider, waterfall, top_tables,
                       shap_values_file, crit_selection, panel, requests, shared_tables>>

\* the values the criteria dropdown may hold: a described criteria or None
CritInputs == df_crit \cup {NoCriteria}

\* the tables a reference sample file may hold
ShapValueFiles ==
    {[id \in RefIds |->
         [shap |-> [i \in Feats |-> RefShapValue(id, i)], est_risk |-> e[id]]] :
        e \in [RefIds -> EstRiskSet]}

\* the store after 'Load explanations' on a customer with these contributions
ScatterStore ==
    [kind  |-> "dict",
     shaps |-> <<[i \in Feats |-> Rat(26 - 10 * i, 10000)]>>,
     base  |-> Rat(1, 4)]

\* any reference sample, any threshold, any selection of the two dropdowns
InitScatter ==
    /\ models_file = <<>>
    /\ explainers_file = <<>>
    /\ thres \in ThresSet
    /\ customer_selection \in CustomerInputs
    /\ customer_risk = NoOutput
    /\ customer_decision = NoOutput
    /\ ret_predict = NoCall
    /\ shapleys = ScatterStore
    /\ ret_shap = NoCall
    /\ top_slider = top_slider_value
    /\ waterfall = NoOutput
    /\ top_tables = NoOutput
    /\ shap_values_file \in ShapValueFiles
    /\ crit_selection \in CritInputs
    /\ panel = NoOutput
    /\ crit_outputs = NoOutput
    /\ tracing = FALSE
    /\ requests = <<>>
    /\ shared_tables = LoadedTables
    /\ last_callback = NoCall
    /\ events = 0

\* one call for each drawn input: the callback is a function of its inputs
NextScatter ==
    last_callback = NoCall /\ update_description /\ UNCHANGED events

SpecScatter == InitScatter /\ [][NextScatter]_vars

-----------------------------------------------------------------------------
(* The customer panel.                                                     *)

\* the bins of the panel histogram, one per percent of risk
NumBins == 100

\* content of data/panel_hist.joblib, a numpy histogram: the number of
\* customers of the panel in each bin (indexed from 0) ...
panel_counts == [k \in 0..(NumBins - 1) |-> ((7 * k) % 13) + 1]

\* ... and the NumBins + 1 edges of the bins: 0, 0.01, ..., 1
panel_bins == [k \in 0..NumBins |-> Rat(k, NumBins)]

RECURSIVE SumCounts(_, _)
SumCounts(counts, k) ==
    IF k < 0 THEN 0 ELSE counts[k] + SumCounts(counts, k - 1)

\* heights=100*heights/heights.sum()
load_panel ==
    [heights |-> [k \in DOMAIN panel_counts |->
                     Rat(100 * panel_counts[k],
                         SumCounts(panel_counts, NumBins - 1))],
     bins    |-> panel_bins]

\* the figure of the panel: its bars are those of panel_hist, one bar of
\* width 0.01 at each edge, and the threshold is a dotted line
plot_panel(panel_hist, t) ==
    [kind |-> "figure", bar_width |-> Rat(1, NumBins), threshold |-> t]

\* float(customer_risk[:-1]): the displayed text without its last character,
\* read back as a number
ParsePercent(text) ==
    IF text.kind = "none" THEN [outcome |-> "TypeError"]
    ELSE IF text.kind = "nan%" THEN [outcome |-> "ok", value |-> NaN]
    ELSE [outcome |-> "ok", value |-> Rat(text.tenths, 10)]

\* np.floor(x)
Floor(x) == IF IsNaN(x) THEN NaN ELSE Rat(x.n \div x.d, 1)

\* list.index(x): the first position holding x, a ValueError when none does
ListIndex(list, x) ==
    IF \E k \in DOMAIN list : RatEq(list[k], x)
    THEN [outcome |-> "ok",
          i |-> CHOOSE k \in DOMAIN list :
                    /\ RatEq(list[k], x)
                    /\ \A j \in DOMAIN list : RatEq(list[j], x) => k <= j]
    ELSE [outcome |-> "ValueError"]

\* what update_panel returns, or the exception it raises
update_panel_ret(text, t) ==
    LET panel_hist == load_panel
        fig_panel  == plot_panel(panel_hist, t)
        parsed     == ParsePercent(text)
    IN  IF parsed.outcome # "ok" THEN [outcome |-> parsed.outcome]
        ELSE
        LET cust_bin == RatDivInt(Floor(parsed.value), 100)
            i_bin    == ListIndex(panel_hist.bins, cust_bin)
        IN  IF i_bin.outcome # "ok" THEN [outcome |-> i_bin.outcome]
            ELSE IF i_bin.i \notin DOMAIN panel_hist.heights
            THEN [outcome |-> "IndexError"]
            ELSE [outcome |-> "ok",
                  fig |-> [kind      |-> fig_panel.kind,
                           bar_width |-> fig_panel.bar_width,
                           threshold |-> fig_panel.threshold,
                           rect |-> [x0 |-> RatSub(cust_bin, Rat(5, 1000)),
                                     x1 |-> RatAdd(cust_bin, Rat(5, 1000)),
                                     y0 |-> Zero,
                                     y1 |-> panel_hist.heights[i_bin.i]]]]

\* the callback of the 'Update panel' button
update_panel ==
    LET ret == update_panel_ret(customer_risk, thres)
    IN  /\ IF ret.outcome = "ok" THEN panel' = ret.fig ELSE UNCHANGED panel
        /\ Traced(ret.outcome)
        /\ Ran("update_panel", ret.outcome)
        /\ UNCHANGED <<models_file, explainers_file, thres, customer_selection,
                       customer_risk, customer_decision, ret_predict, shapleys,
                       ret_shap, top_slider, waterfall, top_tables,
                       shap_values_file, crit_selection, crit_outputs,
                       requests, shared_tables>>

\* probabilities of denial near the edges of a bin and near its middle
PanelProbSet == {Rat(2504, 10000), Rat(2596, 10000), Rat(2996, 10000), One}

\* classifiers of the same shape as Classifiers, with these probabilities
PanelClassifiers ==
    {[r \in Rows |-> IF RatLess(r[1], Rat(3, 10)) THEN p ELSE q] :
        p \in PanelProbSet, q \in PanelProbSet}

InitPanel ==
    /\ models_file \in SeqsUpTo(PanelClassifiers, MaxModels)
    /\ explainers_file = <<>>
    /\ thres = app_thres
    /\ shap_values_file = <<>>
    /\ InitPage

NextPanel ==
    /\ \/ \E customer_id \in CustomerInputs : update_customer(customer_id)
       \/ update_panel
    /\ UNCHANGED events

SpecPanel == InitPanel /\ [][NextPanel]_vars

-----------------------------------------------------------------------------
(* The dashboard: the page and its six callbacks.                          *)

\* a new value of the criteria dropdown: it is a State of update_description
\* and the Input of no callback, so nothing runs
select_criteria(crit) ==
    /\ crit_selection' = crit
    /\ UNCHANGED <<models_file, explainers_file, thres, customer_selection,
                   customer_risk, customer_decision, ret_predict, shapleys,
                   ret_shap, top_slider, waterfall, top_tables,
                   shap_values_file, panel, crit_outputs, tracing, requests,
                   shared_tables, last_callback>>

\* the values the customer dropdown offers (customer_list), and None when
\* the selection is cleared
CustomerOptions == CustomerIds \cup {None}

\* the explainer of a classifier that tells the customers apart
AppExplainer ==
    CHOOSE e \in Explainers :
        /\ e.shape = "split"
        /\ \E r1, r2 \in Rows : e.clf[r1] # e.clf[r2]

\* the criteria selected in a session: none, a column of the tables, or a
\* described row that is no column
CritOptions == {NoCriteria, FeatureName(1), UnknownCrit}

\* the files of a deployment: five explainers alike, their classifiers, and
\* a reference sample
AppFiles ==
    /\ explainers_file = [i \in 1..n_expl |-> AppExplainer]
    /\ models_file = [i \in 1..n_expl |-> explainers_file[i].clf]
    /\ thres = app_thres
    /\ shap_values_file =
           [id \in RefIds |->
               [shap     |-> [i \in Feats |-> RefShapValue(id, i)],
                est_risk |-> Rat(id, 5)]]

Init == AppFiles /\ InitPage

\* the longest session explored
MaxEvents == 6

\* the events of the page, one at a time: a selection in a dropdown or a
\* click on one of the five buttons
Next ==
    /\ events < MaxEvents
    /\ events' = events + 1
    /\ \/ \E customer_id \in CustomerOptions : update_customer(customer_id)
       \/ update_explaination
       \/ update_panel
       \/ update_water
       \/ update_tables
       \/ update_description
       \/ \E crit \in CritOptions : select_criteria(crit)

Spec == Init /\ [][Next]_vars

-----------------------------------------------------------------------------
(* The server: callbacks of concurrent requests, one thread each.          *)

\* the threads of the server
MaxThreads == 2

Threads == 1..MaxThreads

\* a thread with no request
Idle == [pc |-> "idle", name |-> "none", ret |-> NoCall, peak |-> "none"]

CallbackNames ==
    {"update_customer", "update_explaination", "update_panel", "update_water",
     "update_tables", "update_description"}

\* the callbacks that start with tracemalloc.start()
UsesTracemalloc(name) == name # "update_explaination"

\* what update_customer returns, or the exception it raises
update_customer_ret(df, customer_id, t) ==
    LET ret == predict_decision(load_models, df, customer_id, t)
    IN  IF ret.outcome # "ok" THEN [outcome |-> ret.outcome]
        ELSE [outcome         |-> "ok",
              risk_output     |-> FormatPercent1(ret.risk),
              decision_output |->
                  [kind |-> IF ret.decision THEN "granted" ELSE "denied"]]

\* what update_explaination returns, or the exception it raises
update_explaination_ret(df, customer_id) ==
    LET ret == shap_explain(customer_id, df, n_expl)
    IN  IF ret.outcome # "ok" THEN [outcome |-> ret.outcome]
        ELSE [outcome |-> "ok",
              dic     |-> [kind |-> "dict", shaps |-> ret.shaps, base |-> ret.base]]

\* what update_water may return, or the exception it raises
update_water_ret(store, n_top, customer_id, t) ==
    IF Subscript(store).outcome # "ok"
    THEN {[outcome |-> Subscript(store).outcome]}
    ELSE {[outcome |-> "ok", fig_waterfall |-> fig] :
             fig \in plot_waterfall(columns, customer_id, n_top, t,
                                    store.base, store.shaps)}

\* what update_tables may return, or the exception it raises
update_tables_ret(df, store, n_top, customer_id) ==
    IF Subscript(store).outcome # "ok"
    THEN {[outcome |-> Subscript(store).outcome]}
    ELSE IF Lookup(df, customer_id).outcome # "ok"
    THEN {[outcome |-> Lookup(df, customer_id).outcome]}
    ELSE {[outcome |-> "ok", children_top |-> children] :
             children \in generate_top_tables(n_top, df, customer_id,
                                              store.shaps)}

\* what the callback may return for the inputs the page holds, when the
\* customer table of the process is df
callback_returns(name, df) ==
    CASE name = "update_customer" ->
             {update_customer_ret(df, customer_selection, thres)}
      [] name = "update_explaination" ->
             {update_explaination_ret(df, customer_selection)}
      [] name = "update_panel" ->
             {update_panel_ret(customer_risk, thres)}
      [] name = "update_water" ->
             update_water_ret(shapleys, top_slider, customer_selection, thres)
      [] name = "update_tables" ->
             update_tables_ret(df, shapleys, top_slider, customer_selection)
      [] name = "update_description" ->
             {update_description_ret(df, shapleys, crit_selection,
                                     customer_selection)}

\* the tables the process holds once plot_shap_scatter has run:
\* s_vals = df_cust[[crit]].copy() is a table of its own, and the in-place
\* replace writes that table only
plot_shap_scatter_objects(df, crit) ==
    LET i      == Column(crit).i
        s_vals == [c \in DOMAIN df |-> df[c][i]]
    IN  [df_cust |-> df,
         s_vals  |-> [c \in DOMAIN s_vals |-> replace(crit, s_vals[c])]]

\* the shared tables once the body of a callback has run: no callback
\* assigns to df_cust or df_crit, and the only in-place operation is the
\* one of plot_shap_scatter
body_tables(name, tables) ==
    IF /\ name = "update_description"
       /\ crit_selection # NoCriteria
       /\ Subscript(shapleys).outcome = "ok"
       /\ Column(crit_selection).outcome = "ok"
    THEN [tables EXCEPT !.df_cust =
             plot_shap_scatter_objects(tables.df_cust, crit_selection).df_cust]
    ELSE tables

get_traced_memory_strict(flag) ==
    IF flag THEN [outcome |-> "ok", peak |-> "traced"]
    ELSE [outcome |-> "RuntimeError"]
\* tracemalloc.get_traced_memory(): (0, 0) when tracemalloc is not tracing
get_traced_memory(flag) ==
    IF flag THEN [outcome |-> "ok", peak |-> "traced"]
    ELSE [outcome |-> "ok", peak |-> "zero"]

PageUnchanged ==
    UNCHANGED <<models_file, explainers_file, thres, customer_selection,
                customer_risk, customer_decision, ret_predict, shapleys,
                ret_shap, top_slider, waterfall, top_tables, shap_values_file,
                crit_selection, panel, crit_outputs, last_callback, events>>

\* a request for a callback reaches an idle thread
receive(t, name) ==
    /\ requests[t].pc = "idle"
    /\ requests' = [requests EXCEPT ![t] =
           [pc   |-> IF UsesTracemalloc(name) THEN "start" ELSE "body",
            name |-> name, ret |-> NoCall, peak |-> "none"]]
    /\ UNCHANGED <<tracing, shared_tables>>
    /\ PageUnchanged

\* tracemalloc.start()
tracemalloc_start(t) ==
    /\ requests[t].pc = "start"
    /\ tracing' = TRUE
    /\ requests' = [requests EXCEPT ![t].pc = "body"]
    /\ UNCHANGED shared_tables
    /\ PageUnchanged

\* the statements between the start and the measure; an exception ends the
\* callback there
body(t) ==
    /\ requests[t].pc = "body"
    /\ \E ret \in callback_returns(requests[t].name, shared_tables.df_cust) :
           requests' = [requests EXCEPT
               ![t].ret = ret,
               ![t].pc  = IF ret.outcome # "ok" THEN "done"
                          ELSE IF UsesTracemalloc(requests[t].name) THEN "get"
                          ELSE "done"]
    /\ shared_tables' = body_tables(requests[t].name, shared_tables)
    /\ UNCHANGED tracing
    /\ PageUnchanged

\* current, peak = tracemalloc.get_traced_memory()
measure(t) ==
    LET got == get_traced_memory(tracing)
    IN  /\ requests[t].pc = "get"
        /\ requests' = [requests EXCEPT ![t] =
               IF got.outcome = "ok"
               THEN [@ EXCEPT !.peak = got.peak, !.pc = "stop"]
               ELSE [@ EXCEPT !.ret = [outcome |-> got.outcome], !.pc = "done"]]
        /\ UNCHANGED <<tracing, shared_tables>>
        /\ PageUnchanged

\* tracemalloc.stop(), then the peak is printed and the callback returns
tracemalloc_stop(t) ==
    /\ requests[t].pc = "stop"
    /\ tracing' = FALSE
    /\ requests' = [requests EXCEPT ![t].pc = "done"]
    /\ UNCHANGED shared_tables
    /\ PageUnchanged

\* the page after customer 1 was selected and explained and a criteria
\* holding codes was chosen
PageOfCustomer ==
    LET ret  == predict_decision(load_models, df_cust, 1, thres)
        expl == shap_explain(1, df_cust, n_expl)
    IN  /\ customer_selection = 1
        /\ ret_predict = ret
        /\ customer_risk = FormatPercent1(ret.risk)
        /\ customer_decision =
               [kind |-> IF ret.decision THEN "granted" ELSE "denied"]
        /\ ret_shap = expl
        /\ shapleys = [kind |-> "dict", shaps |-> expl.shaps, base |-> expl.base]
        /\ crit_selection = FeatureName(2)

\* the page as first served
PageEmpty ==
    /\ customer_selection = None
    /\ ret_predict = NoCall
    /\ customer_risk = NoOutput
    /\ customer_decision = NoOutput
    /\ ret_shap = NoCall
    /\ shapleys = NoOutput
    /\ crit_selection = NoCriteria

\* the number of criteria asked for: fewer than there are features, so that
\* the waterfall has its others bar
ConcurrentNTop == 2

\* every thread idle, and the events that are about to fire find the page
\* in one of these two states
InitConcurrent ==
    /\ AppFiles
    /\ PageEmpty \/ PageOfCustomer
    /\ top_slider = ConcurrentNTop
    /\ waterfall = NoOutput
    /\ top_tables = NoOutput
    /\ panel = NoOutput
    /\ crit_outputs = NoOutput
    /\ tracing = FALSE
    /\ requests = [t \in Threads |-> Idle]
    /\ shared_tables = LoadedTables
    /\ last_callback = NoCall
    /\ events = 0

NextConcurrent ==
    \E t \in Threads :
        \/ \E name \in CallbackNames : receive(t, name)
        \/ tracemalloc_start(t)
        \/ body(t)
        \/ measure(t)
        \/ tracemalloc_stop(t)

SpecConcurrent == InitConcurrent /\ [][NextConcurrent]_vars

-----------------------------------------------------------------------------
(* Properties of the decision engine (SpecDecision).                       *)

\* the sum of the denial probabilities the first j classifiers give a row
RECURSIVE SumDenial(_, _, _)
SumDenial(models, row, j) ==
    IF j = 0 THEN Zero
    ELSE RatAdd(SumDenial(models, row, j - 1), models[j][row])

\* a call of predict_decision returned a risk from a non-empty ensemble
Decided == ret_predict.outcome = "ok" /\ Len(models_file) >= 1

C8_RiskIsMeanDenialProbability ==
    Decided =>
        /\ RatEq(RatMulInt(ret_predict.risk, Len(models_file)),
                 SumDenial(models_file, df_cust[ret_predict.customer_id],
                           Len(models_file)))
        /\ RatLeq(Zero, ret_predict.risk)
        /\ RatLeq(ret_predict.risk, One)

\* two classifiers that disagree on the customer were averaged
C8_Witness ==
    /\ ret_predict.outcome = "ok"
    /\ Len(models_file) >= 2
    /\ ~RatEq(models_file[1][df_cust[ret_predict.customer_id]],
              models_file[2][df_cust[ret_predict.customer_id]])
    /\ RatLess(Zero, ret_predict.risk)
    /\ RatLess(ret_predict.risk, One)

\* C9: an empty classifier ensemble is rejected when it is loaded, so
\* predict_decision never returns a risk and a decision computed from zero
\* classifiers.
C9_EmptyEnsembleRejected ==
    ~(ret_predict.outcome = "ok" /\ Len(models_file) = 0)

-----------------------------------------------------------------------------
(* Properties of the attribution aggregator (SpecExplain).                 *)

\* C4: for the same customer, the aggregated baseline shap_explain returns
\* plus the sum of the aggregated contributions it returns equals the risk
\* predict_decision returns.
C4_BaselinePlusContributionsIsRisk ==
    (/\ ret_predict.outcome = "ok"
     /\ ret_shap.outcome = "ok"
     /\ ret_predict.customer_id = ret_shap.customer_id) =>
        RatEq(RatAdd(ret_shap.base, SumSeq(ret_shap.shaps[1])),
              ret_predict.risk)

\* C10: called for an identifier that is no key of the customer table
\* (None included), predict_decision and shap_explain end in an error and
\* return nothing else: no risk, decision, contribution vector or baseline.
C10_UnknownCustomerIsAnError ==
    /\ (ret_predict.outcome # "none" /\ ~HasKey(df_cust, ret_predict.customer_id)) =>
           ret_predict = [customer_id |-> ret_predict.customer_id,
                          outcome     |-> "KeyError"]
    /\ (ret_shap.outcome # "none" /\ ~HasKey(df_cust, ret_shap.customer_id)) =>
           ret_shap = [customer_id |-> ret_shap.customer_id,
                       outcome     |-> "KeyError"]

\* both functions were called for an identifier the table does not hold,
\* after a known customer had been decided
C10_Witness ==
    /\ ret_predict.outcome = "KeyError"
    /\ ret_shap.outcome = "KeyError"
    /\ ~HasKey(df_cust, customer_selection)
    /\ customer_risk.kind = "percent"

-----------------------------------------------------------------------------
(* Properties of the waterfall builder (SpecWaterfall).                    *)

\* the contribution vector the figure was drawn from
Contributions == shapleys.shaps[1]

\* the feature bars of the drawn figure: all bars but the first
TopBars == Tail(waterfall.bars)

Shown == {TopBars[j].feat : j \in DOMAIN TopBars}

\* C2: the final cumulative position plot_waterfall draws is the baseline
\* plus the sum of the whole contribution vector, whatever N is.
C2_FinalValueIsBaselinePlusTotal ==
    waterfall.kind = "figure" =>
        RatEq(waterfall.final_value,
              RatAdd(shapleys.base, SumSeq(Contributions)))

\* a figure in which features were folded into a non-zero 'others' bar
C2_Witness ==
    /\ waterfall.kind = "figure"
    /\ top_slider < NumFeats
    /\ ~RatEq(waterfall.bars[1].value, Zero)
    /\ ~RatEq(waterfall.final_value, shapleys.base)

\* C3: with L features and N asked for, when N < L the 'others' bar counts
\* L - N features and its value is the total minus the sum of the N bars
\* shown, which are N features of largest absolute contribution; when
\* N >= L the 'others' bar counts 0 features, has value 0, and all L
\* features are shown.
C3_OthersBucket ==
    waterfall.kind = "figure" =>
        /\ waterfall.bars[1].label.text = "others"
        /\ Cardinality(Shown) = Len(TopBars)
        /\ \A j \in DOMAIN TopBars :
               /\ TopBars[j].feat \in Feats
               /\ TopBars[j].value = Contributions[TopBars[j].feat]
               /\ TopBars[j].label.name = columns[TopBars[j].feat]
        /\ top_slider < NumFeats =>
               /\ Len(TopBars) = top_slider
               /\ waterfall.bars[1].label.n = NumFeats - top_slider
               /\ RatEq(waterfall.bars[1].value,
                        RatSub(SumSeq(Contributions),
                               SumSeq([j \in DOMAIN TopBars |-> TopBars[j].value])))
               /\ \A i \in Shown : \A k \in Feats \ Shown :
                      RatLeq(RatAbs(Contributions[k]), RatAbs(Contributions[i]))
        /\ top_slider >= NumFeats =>
               /\ waterfall.bars[1].label.n = 0
               /\ waterfall.bars[1].value = Zero
               /\ Shown = Feats

\* at least two features were folded into an 'others' bar that is not zero
C3_Witness ==
    /\ waterfall.kind = "figure"
    /\ waterfall.bars[1].label.n >= 2
    /\ waterfall.bars[1].label.n = NumFeats - top_slider
    /\ ~RatEq(waterfall.bars[1].value, Zero)

\* C6: the first bar is the 'others' bar, the feature bars follow in
\* non-decreasing order of absolute contribution, and the last bar is a
\* feature of largest absolute contribution.
C6_OthersFirstThenAscending ==
    waterfall.kind = "figure" =>
        /\ waterfall.bars[1].label.text = "others"
        /\ \A j \in DOMAIN TopBars : TopBars[j].label.text = "criteria"
        /\ \A j, k \in DOMAIN TopBars :
               j < k => RatLeq(RatAbs(TopBars[j].value), RatAbs(TopBars[k].value))
        /\ TopBars # <<>> =>
               \A i \in Feats :
                   RatLeq(RatAbs(Contributions[i]),
                          RatAbs(TopBars[Len(TopBars)].value))

\* a figure whose first feature bar is strictly smaller than its last
C6_Witness ==
    /\ waterfall.kind = "figure"
    /\ Len(TopBars) >= 2
    /\ RatLess(RatAbs(TopBars[1].value), RatAbs(TopBars[Len(TopBars)].value))

\* C7: the ranking is a stable sort: features of equal absolute
\* contribution keep their column order among the bars, and of two such
\* features only the later one can be shown without the other.
C7_TiesKeepFeatureOrder ==
    waterfall.kind = "figure" =>
        /\ \A j, k \in DOMAIN TopBars :
               (j < k /\ RatEq(RatAbs(TopBars[j].value), RatAbs(TopBars[k].value)))
                   => TopBars[j].feat < TopBars[k].feat
        /\ \A i \in Shown : \A k \in Feats \ Shown :
               RatEq(RatAbs(Contributions[i]), RatAbs(Contributions[k])) => k < i

-----------------------------------------------------------------------------
(* Properties of the customer's top table (SpecTables).                    *)

\* the rows of the customer's table and the features they stand for
Rows_c == top_tables.child_c

Listed == {Rows_c[j].index : j \in DOMAIN Rows_c}

\* the table holds min(N, L) rows, for features of largest absolute
\* contribution, in non-increasing order of absolute contribution
TopRowsRanked ==
    /\ Len(Rows_c) = Min(top_slider, NumFeats)
    /\ Cardinality(Listed) = Len(Rows_c)
    /\ Listed \subseteq Feats
    /\ \A i \in Listed : \A k \in Feats \ Listed :
           RatLeq(RatAbs(Contributions[k]), RatAbs(Contributions[i]))
    /\ \A j, k \in DOMAIN Rows_c :
           j < k => RatLeq(RatAbs(Contributions[Rows_c[k].index]),
                           RatAbs(Contributions[Rows_c[j].index]))

\* C5 as claimed: the customer's table holds min(N, L) rows, the features of
\* largest absolute contribution in non-increasing order, each row made of
\* the feature's name, its raw value and its signed contribution.
C5_RowsAreNameRawValueContribution ==
    top_tables.kind = "tables" =>
        /\ TopRowsRanked
        /\ \A j \in DOMAIN Rows_c :
               /\ Rows_c[j].Criteria = columns[Rows_c[j].index]
               /\ Rows_c[j].Values = df_cust[customer_selection][Rows_c[j].index]
               /\ Rows_c[j].Impact = Contributions[Rows_c[j].index]

\* C5 as amended: the customer's table holds min(N, L) rows, the features of
\* largest absolute contribution in non-increasing order, each row made of
\* the first 30 characters of the feature's name, and of its raw value and
\* its signed contribution both rounded to 3 decimal places.
C5_RowsAreTruncatedNameRoundedValues ==
    top_tables.kind = "tables" =>
        /\ TopRowsRanked
        /\ \A j \in DOMAIN Rows_c :
               /\ Rows_c[j].Criteria = SubSeq(columns[Rows_c[j].index], 1,
                                        Min(30, Len(columns[Rows_c[j].index])))
               /\ RatEq(Rows_c[j].Values,
                        Rat(RoundHalfEven(
                                1000 * df_cust[customer_selection][Rows_c[j].index].n,
                                df_cust[customer_selection][Rows_c[j].index].d), 1000))
               /\ RatEq(Rows_c[j].Impact,
                        Rat(RoundHalfEven(1000 * Contributions[Rows_c[j].index].n,
                                          Contributions[Rows_c[j].index].d), 1000))

\* fewer rows than features, one of them with a shortened name and a
\* contribution that rounding changed
C5_Witness ==
    /\ top_tables.kind = "tables"
    /\ Len(Rows_c) = top_slider
    /\ top_slider < NumFeats
    /\ \E j \in DOMAIN Rows_c :
           /\ Rows_c[j].Criteria # columns[Rows_c[j].index]
           /\ ~RatEq(Rows_c[j].Impact, Contributions[Rows_c[j].index])

-----------------------------------------------------------------------------
(* Properties of the scatter (SpecScatter).                                *)

RatMin(x, y) == IF RatLeq(x, y) THEN x ELSE y

RatMax(x, y) == IF RatLeq(x, y) THEN y ELSE x

\* the points of the scatter the callback has drawn
Points == crit_outputs.scatter_plot.points

\* C11: the colour value of every point of the reference sample is
\* min(max(est_risk, 0), threshold): it lies in [0, threshold], and every
\* point whose estimated risk is at least the threshold gets the colour
\* value of the threshold itself
C11_ColourIsRiskClampedToThreshold ==
    crit_outputs.kind = "outputs" =>
        \A id \in DOMAIN Points :
            LET est    == shap_values_file[id].est_risk
                colour == Points[id].estimated_risk
            IN  /\ colour = RatMin(RatMax(est, Zero), thres)
                /\ RatLeq(Zero, colour)
                /\ RatLeq(colour, thres)
                /\ (RatLeq(thres, est) => colour = thres)

\* a drawn scatter with a point under 0, a point strictly inside and two
\* points of different risks at or above the threshold
C11_Witness ==
    /\ crit_outputs.kind = "outputs"
    /\ \E a, b, c \in DOMAIN Points :
           /\ RatLess(shap_values_file[a].est_risk, Zero)
           /\ RatLess(thres, shap_values_file[b].est_risk)
           /\ shap_values_file[c].est_risk = thres
           /\ Points[b].estimated_risk = Points[c].estimated_risk

-----------------------------------------------------------------------------
(* Properties of the customer panel (SpecPanel).                           *)

\* the panel was just drawn from the risk the decision engine returned last
PanelDrawn ==
    /\ last_callback = [name |-> "update_panel", outcome |-> "ok"]
    /\ ret_predict.outcome = "ok"
    /\ customer_risk = FormatPercent1(ret_predict.risk)

\* the left edge of the highlighted bin
HighlightedEdge == RatAdd(panel.rect.x0, Rat(5, 1000))

\* C14: the bin update_panel highlights is the bin holding the customer's
\* risk r: its left edge b is a multiple of 0.01 with b <= r < b + 0.01
C14_HighlightedBinHoldsRisk ==
    PanelDrawn =>
        /\ \E k \in 0..(NumBins - 1) : HighlightedEdge = Rat(k, NumBins)
        /\ RatLeq(HighlightedEdge, ret_predict.risk)
        /\ RatLess(ret_predict.risk, RatAdd(HighlightedEdge, Rat(1, NumBins)))

-----------------------------------------------------------------------------
(* Properties of the dashboard (Spec).                                     *)

\* C12: whatever the events since the page was served, the callback that
\* ran last did not end in an exception
C12_NoCallbackRaises == last_callback.outcome \in {"none", "ok"}

\* the store as 'Load explanations' writes it for customer_id
StoreOf(customer_id) ==
    LET ret == shap_explain(customer_id, df_cust, n_expl)
    IN  [kind |-> "dict", shaps |-> ret.shaps, base |-> ret.base]

\* C13: when update_water, update_tables or update_description has produced
\* its output for the selected customer, the store it read holds what
\* shap_explain computes for that customer
C13_StoreIsOfSelectedCustomer ==
    (/\ last_callback.outcome = "ok"
     /\ last_callback.name \in
            {"update_water", "update_tables", "update_description"}
     /\ customer_selection \in CustomerIds)
        => shapleys = StoreOf(customer_selection)

-----------------------------------------------------------------------------
(* Properties of the server (SpecConcurrent).                              *)

\* the callbacks that have ended, by a return or by an exception
Ended == {t \in Threads : requests[t].pc = "done"}

\* C15: whatever the interleaving of the callbacks, each one ends as it may
\* end when run alone on the same inputs and the tables as loaded (same
\* return value, or same exception), and the shared tables stay as loaded;
\* so the tracing flag changes no output and fails no callback
C15_CallbacksAreIsolated ==
    /\ shared_tables = LoadedTables
    /\ \A t \in Ended :
           requests[t].ret \in callback_returns(requests[t].name, df_cust)

\* two callbacks have returned, one of them having measured its memory
\* after the other had stopped the tracing, and the in-place replace of
\* update_description has run
C15_Witness ==
    \E t, u \in Ended :
        /\ t # u
        /\ requests[t].ret.outcome = "ok"
        /\ requests[u].ret.outcome = "ok"
        /\ requests[t].peak = "zero"
        /\ requests[u].peak = "traced"
        /\ requests[u].name = "update_description"

====
